---- MODULE Spec2Model ----
(***************************************************************************)
(* Harp firmware updater GUI: the deployment eligibility gate              *)
(* (DeviceTable._get_deploy_eligibility), the firmware validator           *)
(* (FirmwareService.validate_firmware_file) and the upload orchestration   *)
(* (DeviceTable.deploy_firmware, HarpFirmwareUpdaterApp.on_firmware_deploy)*)
(* with the UI callbacks that interleave with it at its await points.      *)
(***************************************************************************)
EXTENDS Integers, Sequences, FiniteSets, TLC

VARIABLES
    devices,              \* DeviceManager cache: sequence of Device records
    rows,                 \* DeviceTable.table.rows: the "port" column of each row
    selected_device,      \* DeviceTable.selected_device: <<>> (None) or <<device>>
    firmware_file_path,   \* DeviceTable.firmware_file_path: <<>> (None) or <<path>>
    deploy_button,        \* deploy_button enabled
    force_upload,         \* force_upload_checkbox.value
    batch_update,         \* batch_update_checkbox.value
    is_refreshing,        \* DeviceTable.is_refreshing
    refresh_button,       \* refresh_button enabled
    refresh_dialog,       \* refresh_dialog open
    refresh,              \* the DeviceTable.refresh_devices call in flight
    has_error,            \* UpdateWorkflow.has_error
    notification,         \* text of the last ui.notify
    run,                  \* the on_firmware_deploy coroutine (one run is followed at a time)
    decision,             \* result of the last _get_deploy_eligibility call
    device_kind,          \* validate_firmware_file argument
    firmware_path,        \* validate_firmware_file argument
    validation,           \* result of the last validate_firmware_file call
    connect_all_on_refresh, \* DeviceTable.connect_all_on_refresh (the "Connect all" checkbox)
    cli,                  \* the last CLIWrapper call: its operation, process outcome, result
    firmware_cache,       \* FirmwareService.firmware_cache: path -> <<>> or <<metadata>>
    inspections,          \* the FirmwareService.inspect_firmware calls made so far
    constructed           \* the last Device(...) construction: its fields and outcome

vars == <<devices, rows, selected_device, firmware_file_path, deploy_button,
          force_upload, batch_update, is_refreshing, refresh_button,
          refresh_dialog, refresh, has_error, notification, run,
          decision, device_kind, firmware_path, validation,
          connect_all_on_refresh, cli, firmware_cache, inspections, constructed>>

serviceVars == <<cli, firmware_cache, inspections, constructed>>

(***************************************************************************)
(* Bounds                                                                  *)
(***************************************************************************)
MaxDevices == 3      \* longest inventory handed to the eligibility gate
MaxNameLen == 3      \* longest file name (in tokens) handed to the validator
MaxTargets == 3      \* most target devices in one deployment request

(***************************************************************************)
(* Python values                                                           *)
(***************************************************************************)
None == "None"
NoneOpt == <<>>
Some(x) == <<x>>

(***************************************************************************)
(* models/device.py                                                        *)
(***************************************************************************)
States == {"Online", "Bootloader", "DriverError", "DeviceError", "bootloader"}
Ports == {"COM3", "COM5"}
Kinds == {"Pico", "ATxmega"}

\* Device.validate_port_name: the port may be missing only in these states
validate_port_name_BootloaderOnly(d) ==
    ~(d.state \notin {"Bootloader"} /\ d.port_name = None)
validate_port_name(d) ==
    ~(d.state \notin {"Bootloader", "DriverError"} /\ d.port_name = None)

\* Devices whose only varying fields are the ones the gate reads
GateDevices ==
    {d \in [port_name : Ports \cup {None}, state : States,
            kind : {"Pico"}, display_name : {"Sensor"}] : validate_port_name(d)}

\* Device.display_name
display_name(d) ==
    IF d.device_description # None THEN d.device_description
    ELSE IF d.who_am_i # NoneOpt /\ d.who_am_i[1] # 0 THEN "Device 1405"
    ELSE IF d.port_name = "COM3" THEN "Device on COM3"
    ELSE IF d.port_name = "COM5" THEN "Device on COM5"
    ELSE "Unknown Device"

\* the fields Device(...) may be constructed with
DeviceInputs ==
    [port_name : Ports \cup {None}, state : States \cup {"Unknown"}, kind : Kinds,
     device_description : {None, "Sensor"},
     who_am_i : {NoneOpt, Some(0), Some(1405)}]

\* Device.health_status
health_status(d) ==
    IF d.state = "Online" THEN "Healthy"
    ELSE IF d.state = "Bootloader" THEN "Bootloader"
    ELSE IF d.state = "DriverError" THEN "Error"
    ELSE "Unknown"

\* Device.health_color
health_color(d) ==
    IF health_status(d) = "Healthy" THEN "green"
    ELSE IF health_status(d) = "Bootloader" THEN "yellow"
    ELSE IF health_status(d) = "Error" THEN "red"
    ELSE "gray"

NotConstructed(fields) ==
    [fields |-> fields, outcome |-> "pending", name |-> None,
     health_status |-> None, health_color |-> None]

\* Device(**fields): pydantic runs the model validator after the fields are set
ConstructDevice ==
    /\ constructed.outcome = "pending"
    /\ constructed' =
          IF validate_port_name(constructed.fields)
          THEN [constructed EXCEPT !.outcome = "ok",
                                   !.name = display_name(constructed.fields),
                                   !.health_status = health_status(constructed.fields),
                                   !.health_color = health_color(constructed.fields)]
          ELSE [constructed EXCEPT !.outcome = "ValidationError"]
    /\ UNCHANGED <<devices, rows, selected_device, firmware_file_path, deploy_button,
                   force_upload, batch_update, is_refreshing, refresh_button,
                   refresh_dialog, refresh, has_error, notification, run, decision,
                   device_kind, firmware_path, validation, connect_all_on_refresh,
                   cli, firmware_cache, inspections>>

(***************************************************************************)
(* components/device_table.py: the eligibility gate                        *)
(***************************************************************************)
Allowed == [ok |-> TRUE, reason |-> None]
Blocked(reason) == [ok |-> FALSE, reason |-> reason]

NoDevicesReason == "No devices available for firmware deployment"
ErrorStateReason == "Deployment blocked: one or more devices are in DeviceError state"
SelectBootloaderReason == "Select the Bootloader device to deploy firmware"
OnlyBootloaderReason == "Deployment allowed only to the single Bootloader device"
BatchBootloaderReason == "Batch update is not allowed when exactly one device is in Bootloader state"
MultipleBootloaderReason == "Deployment blocked: multiple devices are in Bootloader state"

BlockedReasons ==
    {NoDevicesReason, ErrorStateReason, SelectBootloaderReason,
     OnlyBootloaderReason, BatchBootloaderReason, MultipleBootloaderReason}

IsBootloader_AnyCase(d) == d.state \in {"Bootloader", "bootloader"}
IsBootloader(d) == d.state = "Bootloader"
bootloader_devices(devs) == SelectSeq(devs, IsBootloader)

IsErrorOnlyDriver(d) == d.state = "DriverError"
IsError(d) == d.state \in {"DriverError", "DeviceError"}
error_devices_DriverOnly(devs) == SelectSeq(devs, IsErrorOnlyDriver)
error_devices(devs) == SelectSeq(devs, IsError)

\* the branch taken when exactly one device is in Bootloader state
single_bootloader_NoPortCheck(devs, sel, batch) ==
    IF sel = NoneOpt THEN Blocked(SelectBootloaderReason)
    ELSE IF batch THEN Blocked(BatchBootloaderReason)
    ELSE Allowed
single_bootloader_PortInverted(devs, sel, batch) ==
    IF sel = NoneOpt THEN Blocked(SelectBootloaderReason)
    ELSE IF sel[1].port_name = bootloader_devices(devs)[1].port_name
         THEN Blocked(OnlyBootloaderReason)
    ELSE IF batch THEN Blocked(BatchBootloaderReason)
    ELSE Allowed
single_bootloader_NoBatchCheck(devs, sel, batch) ==
    IF sel = NoneOpt THEN Blocked(SelectBootloaderReason)
    ELSE IF sel[1].port_name # bootloader_devices(devs)[1].port_name
         THEN Blocked(OnlyBootloaderReason)
    ELSE Allowed
single_bootloader(devs, sel, batch) ==
    IF sel = NoneOpt THEN Blocked(SelectBootloaderReason)
    ELSE IF sel[1].port_name # bootloader_devices(devs)[1].port_name
         THEN Blocked(OnlyBootloaderReason)
    ELSE IF batch THEN Blocked(BatchBootloaderReason)
    ELSE Allowed

get_deploy_eligibility_NoEmptyCheck(devs, sel, batch) ==
    IF error_devices(devs) # <<>> THEN Blocked(ErrorStateReason)
    ELSE IF Len(bootloader_devices(devs)) = 1 THEN single_bootloader(devs, sel, batch)
    ELSE IF Len(bootloader_devices(devs)) > 1 THEN Blocked(MultipleBootloaderReason)
    ELSE Allowed
get_deploy_eligibility_MoreThanTwo(devs, sel, batch) ==
    IF devs = <<>> THEN Blocked(NoDevicesReason)
    ELSE IF error_devices(devs) # <<>> THEN Blocked(ErrorStateReason)
    ELSE IF Len(bootloader_devices(devs)) = 1 THEN single_bootloader(devs, sel, batch)
    ELSE IF Len(bootloader_devices(devs)) > 2 THEN Blocked(MultipleBootloaderReason)
    ELSE Allowed
get_deploy_eligibility(devs, sel, batch) ==
    IF devs = <<>> THEN Blocked(NoDevicesReason)
    ELSE IF error_devices(devs) # <<>> THEN Blocked(ErrorStateReason)
    ELSE IF Len(bootloader_devices(devs)) = 1 THEN single_bootloader(devs, sel, batch)
    ELSE IF Len(bootloader_devices(devs)) > 1 THEN Blocked(MultipleBootloaderReason)
    ELSE Allowed

(***************************************************************************)
(* services/firmware_service.py: the firmware validator                    *)
(***************************************************************************)
\* A file name is a sequence of tokens; "." is the dot character.
NameTokens == {".", "fw", "uf2", "UF2", "hex", "HEX", "bin"}

\* str.lower on a token
Lower(t) == CASE t = "UF2" -> "uf2" [] t = "HEX" -> "hex" [] OTHER -> t

\* str.rfind('.'), 0-based, -1 when there is no dot
RECURSIVE rfind_dot(_, _)
rfind_dot(name, n) ==
    IF n = 0 THEN -1
    ELSE IF name[n] = "." THEN n - 1
    ELSE rfind_dot(name, n - 1)

\* pathlib's PurePath.suffix of the final component
suffix(name) ==
    LET i == rfind_dot(name, Len(name))
    IN IF 0 < i /\ i < Len(name) - 1
       THEN SubSeq(name, i + 1, Len(name))
       ELSE <<>>

LowerSeq(s) == [k \in 1..Len(s) |-> Lower(s[k])]

ExtUf2 == <<".", "uf2">>
ExtHex == <<".", "hex">>
NoExt == <<"None">>

get_firmware_type(path) ==
    LET ext == LowerSeq(suffix(path.name))
    IN IF ext \in {ExtUf2, ExtHex} THEN ext ELSE NoExt

Valid == [valid |-> TRUE, error |-> ""]
Invalid(msg) == [valid |-> FALSE, error |-> msg]

FileNotFound == "Firmware file does not exist"
UnsupportedFormat == "Unsupported firmware file type"
PicoNeedsUf2 == "Pico devices require .uf2 firmware files"
ATxmegaNeedsHex == "ATxmega devices require .hex firmware files"

validate_firmware_file_FormatFirst(kind, path) ==
    LET ext == get_firmware_type(path)
    IN IF ext \notin {ExtUf2, ExtHex} THEN Invalid(UnsupportedFormat)
       ELSE IF ~path.exists THEN Invalid(FileNotFound)
       ELSE IF kind = "Pico" /\ ext # ExtUf2 THEN Invalid(PicoNeedsUf2)
       ELSE IF kind = "ATxmega" /\ ext # ExtHex THEN Invalid(ATxmegaNeedsHex)
       ELSE Valid
validate_firmware_file_NoExists(kind, path) ==
    LET ext == get_firmware_type(path)
    IN IF ext \notin {ExtUf2, ExtHex} THEN Invalid(UnsupportedFormat)
       ELSE IF kind = "Pico" /\ ext # ExtUf2 THEN Invalid(PicoNeedsUf2)
       ELSE IF kind = "ATxmega" /\ ext # ExtHex THEN Invalid(ATxmegaNeedsHex)
       ELSE Valid
validate_firmware_file(kind, path) ==
    LET ext == get_firmware_type(path)
    IN IF ~path.exists THEN Invalid(FileNotFound)
       ELSE IF ext \notin {ExtUf2, ExtHex} THEN Invalid(UnsupportedFormat)
       ELSE IF kind = "Pico" /\ ext # ExtUf2 THEN Invalid(PicoNeedsUf2)
       ELSE IF kind = "ATxmega" /\ ext # ExtHex THEN Invalid(ATxmegaNeedsHex)
       ELSE Valid

(***************************************************************************)
(* The eligibility gate and the validator as operations on their inputs    *)
(***************************************************************************)
RECURSIVE SeqsUpTo(_, _)
SeqsUpTo(S, n) ==
    IF n = 0 THEN {<<>>}
    ELSE LET shorter == SeqsUpTo(S, n - 1)
         IN shorter \cup {Append(q, x) : q \in {t \in shorter : Len(t) = n - 1}, x \in S}

NoDecision == [ok |-> FALSE, reason |-> "not evaluated"]
NoValidation == [valid |-> FALSE, error |-> "not validated"]
NoPath == [exists |-> FALSE, name |-> <<>>]

ValidatorKinds == {"Pico", "ATxmega", "PICO", "UnknownDevice"}
ValidatorPaths == [exists : BOOLEAN, name : SeqsUpTo(NameTokens, MaxNameLen)]

\* one call of _get_deploy_eligibility on the current inventory, selection and batch flag
EvaluateEligibility_SetsButton ==
    /\ decision = NoDecision
    /\ decision' = get_deploy_eligibility(devices, selected_device, batch_update)
    /\ deploy_button' = decision'.ok
    /\ UNCHANGED <<devices, rows, selected_device, firmware_file_path,
                   force_upload, batch_update, is_refreshing, refresh_button,
                   refresh_dialog, refresh, has_error, notification, run,
                   device_kind, firmware_path, validation,
                   connect_all_on_refresh, serviceVars>>
EvaluateEligibility ==
    /\ decision = NoDecision
    /\ decision' = get_deploy_eligibility(devices, selected_device, batch_update)
    /\ UNCHANGED <<devices, rows, selected_device, firmware_file_path, deploy_button,
                   force_upload, batch_update, is_refreshing, refresh_button,
                   refresh_dialog, refresh, has_error, notification, run,
                   device_kind, firmware_path, validation,
                   connect_all_on_refresh, serviceVars>>

\* one call of validate_firmware_file(device_kind, firmware_path)
ValidateFirmware ==
    /\ validation = NoValidation
    /\ validation' = validate_firmware_file(device_kind, firmware_path)
    /\ UNCHANGED <<devices, rows, selected_device, firmware_file_path, deploy_button,
                   force_upload, batch_update, is_refreshing, refresh_button,
                   refresh_dialog, refresh, has_error, notification, run,
                   decision, device_kind, firmware_path,
                   connect_all_on_refresh, serviceVars>>

(***************************************************************************)
(* services/firmware_service.py: the inspection cache                      *)
(***************************************************************************)
MaxInspects == 3     \* most inspect_firmware calls in one behaviour

InspectPaths == {"a.uf2", "b.hex"}
\* what CLIWrapper.inspect_firmware may return: None, an empty dictionary, metadata
ToolResults == {"None", "{}", "meta-1.0.0", "meta-1.1.0"}
\* Python truth value of such a result
Truthy(info) == info \notin {"None", "{}"}

EmptyCache == [p \in InspectPaths |-> NoneOpt]

\* FirmwareService.inspect_firmware(path), the tool answering info if it is asked
inspect_firmware_NoCache(cache, path, info) ==
    [result |-> info, cli_called |-> TRUE,
     cache |-> IF Truthy(info) THEN [cache EXCEPT ![path] = Some(info)] ELSE cache]
inspect_firmware(cache, path, info) ==
    IF cache[path] # NoneOpt
    THEN [result |-> cache[path][1], cli_called |-> FALSE, cache |-> cache]
    ELSE [result |-> info, cli_called |-> TRUE,
          cache |-> IF Truthy(info) THEN [cache EXCEPT ![path] = Some(info)] ELSE cache]

\* one call of FirmwareService.inspect_firmware
InspectFirmware ==
    /\ Len(inspections) < MaxInspects
    /\ \E path \in InspectPaths : \E info \in ToolResults :
         LET call == inspect_firmware(firmware_cache, path, info)
         IN /\ firmware_cache' = call.cache
            /\ inspections' = Append(inspections,
                                     [path |-> path, result |-> call.result,
                                      cli_called |-> call.cli_called])
    /\ UNCHANGED <<devices, rows, selected_device, firmware_file_path, deploy_button,
                   force_upload, batch_update, is_refreshing, refresh_button,
                   refresh_dialog, refresh, has_error, notification, run, decision,
                   device_kind, firmware_path, validation, connect_all_on_refresh,
                   cli, constructed>>

(***************************************************************************)
(* services/cli_wrapper.py: the external tool                              *)
(***************************************************************************)
\* The tool's output is a sequence of tokens: "ws" is white space, "dev" a JSON
\* object describing a device, "x" text that is not JSON.
OutTokens == {"ws", "[", "]", ",", "dev", "null", "x"}
MaxOutLen == 3       \* longest output (in tokens) of the external tool

\* the error stream, as text of its own
ErrTexts == {<<>>, <<"no device on port">>}

\* what one invocation of the external process may do
ProcOutcomes ==
    [launched : BOOLEAN, returncode : {0, 1},
     stdout : SeqsUpTo(OutTokens, MaxOutLen), stderr : ErrTexts]

\* CLIWrapper._run_command: subprocess.run(..., check=True)
run_command(proc) ==
    IF ~proc.launched THEN [exc |-> "FileNotFoundError", stdout |-> <<>>, stderr |-> <<>>]
    ELSE IF proc.returncode # 0
    THEN [exc |-> "CalledProcessError", stdout |-> proc.stdout, stderr |-> proc.stderr]
    ELSE [exc |-> "none", stdout |-> proc.stdout, stderr |-> proc.stderr]

\* str.strip on the output
RECURSIVE lstrip(_)
lstrip(t) == IF t # <<>> /\ Head(t) = "ws" THEN lstrip(Tail(t)) ELSE t
RECURSIVE rstrip(_)
rstrip(t) ==
    IF t # <<>> /\ t[Len(t)] = "ws" THEN rstrip(SubSeq(t, 1, Len(t) - 1)) ELSE t
strip(t) == rstrip(lstrip(t))

\* json.loads: white space between tokens is insignificant; a value is null, an
\* object, or an array of values separated by commas
IsNotWs(tok) == tok # "ws"
NoWs(t) == SelectSeq(t, IsNotWs)

RECURSIVE ParseValue(_, _)
RECURSIVE ParseElems(_, _)
\* the index after the value that starts at i, 0 if there is none
ParseValue(t, i) ==
    IF i > Len(t) THEN 0
    ELSE IF t[i] \in {"null", "dev"} THEN i + 1
    ELSE IF t[i] = "["
    THEN IF i + 1 <= Len(t) /\ t[i + 1] = "]" THEN i + 2 ELSE ParseElems(t, i + 1)
    ELSE 0
\* the index after the "]" that closes the elements starting at i, 0 if none
ParseElems(t, i) ==
    LET j == ParseValue(t, i)
    IN IF j = 0 \/ j > Len(t) THEN 0
       ELSE IF t[j] = "]" THEN j + 1
       ELSE IF t[j] = "," THEN ParseElems(t, j + 1)
       ELSE 0

json_loads(text) ==
    LET t == NoWs(text)
    IN IF t # <<>> /\ ParseValue(t, 1) = Len(t) + 1
       THEN [exc |-> "none", value |-> t]
       ELSE [exc |-> "JSONDecodeError", value |-> <<>>]

\* isinstance(value, list)
IsList(value) == value # <<>> /\ value[1] = "["
EmptyList == <<"[", "]">>

Returned(value) == [raised |-> FALSE, exc |-> "none", value |-> value]
Raised(exc) == [raised |-> TRUE, exc |-> exc, value |-> <<>>]
NoResult == [raised |-> FALSE, exc |-> "none", value |-> <<"not called">>]

\* CLIWrapper.list_devices
list_devices(proc) ==
    LET r == run_command(proc)
    IN IF r.exc = "CalledProcessError" THEN Returned(EmptyList)
       ELSE IF r.exc # "none" THEN Raised(r.exc)
       ELSE IF strip(r.stdout) = <<>> THEN Returned(EmptyList)
       ELSE LET parsed == json_loads(r.stdout)
            IN IF parsed.exc = "JSONDecodeError" THEN Returned(EmptyList)
               ELSE IF IsList(parsed.value) THEN Returned(parsed.value)
               ELSE Returned(EmptyList)

\* CLIWrapper.upload_firmware
upload_firmware_StdoutOnFailure(proc) ==
    LET r == run_command(proc)
    IN IF r.exc = "CalledProcessError" THEN Returned(<<FALSE, r.stdout>>)
       ELSE IF r.exc # "none" THEN Raised(r.exc)
       ELSE Returned(<<TRUE, r.stdout>>)
upload_firmware(proc) ==
    LET r == run_command(proc)
    IN IF r.exc = "CalledProcessError" THEN Returned(<<FALSE, r.stderr>>)
       ELSE IF r.exc # "none" THEN Raised(r.exc)
       ELSE Returned(<<TRUE, r.stdout>>)

NoCliCall(proc) == [op |-> "none", proc |-> proc, result |-> NoResult]

otherThanCli ==
    <<devices, rows, selected_device, firmware_file_path, deploy_button, force_upload,
      batch_update, is_refreshing, refresh_button, refresh_dialog, refresh, has_error,
      notification, run, decision, device_kind, firmware_path, validation,
      connect_all_on_refresh, firmware_cache, inspections, constructed>>

\* one call of CLIWrapper.list_devices
ListDevices ==
    /\ cli.op = "none"
    /\ cli' = [cli EXCEPT !.op = "list_devices", !.result = list_devices(cli.proc)]
    /\ UNCHANGED otherThanCli

\* one call of CLIWrapper.upload_firmware
UploadFirmware ==
    /\ cli.op = "none"
    /\ cli' = [cli EXCEPT !.op = "upload_firmware", !.result = upload_firmware(cli.proc)]
    /\ UNCHANGED otherThanCli

(***************************************************************************)
(* The application: inventory, firmware files and notifications            *)
(***************************************************************************)
Dev(port, state, kind, name) ==
    [port_name |-> port, state |-> state, kind |-> kind, display_name |-> name]

SensorA == Dev("COM3", "Online", "Pico", "Sensor")
SensorC == Dev("COM5", "Online", "ATxmega", "Sensor")
BootB == Dev("COM5", "Bootloader", "Pico", "Device on COM5")

\* what the external tool's list command may report
Inventories ==
    { <<>>,
      <<BootB, SensorA>>,
      <<SensorA, SensorC>> }

FwUf2 == [exists |-> TRUE, name |-> <<"fw", ".", "uf2">>]
FwHex == [exists |-> TRUE, name |-> <<"fw", ".", "hex">>]
FwBin == [exists |-> TRUE, name |-> <<"fw", ".", "bin">>]
FwMissing == [exists |-> FALSE, name |-> <<"fw", ".", "uf2">>]
\* the files the user may pick in browse_firmware
PickedFiles == {FwUf2, FwHex}

\* the arguments on_firmware_deploy may be called with
RequestDevices == {Dev("COM3", "Online", k, "Sensor") : k \in Kinds}
RequestPaths == {FwUf2, FwHex, FwBin, FwMissing}

PortsOf(devs) == [k \in 1..Len(devs) |-> devs[k].port_name]

SelectFirstNotice == "Please select a device first"
SelectFileNotice == "Please select a firmware file"
InvalidFileNotice == "Invalid firmware file"
UploadFailedNotice == "Firmware upload failed"
UploadErrorNotice == "Upload error"
BatchPartialNotice == "Batch update: some succeeded, some failed"
BatchSuccessNotice == "Successfully updated device(s)!"
CompletedNotice == "Firmware update completed!"
CheckingNotice == "Checking for devices..."
FoundNotice == "Found device(s)"
RefreshErrorNotice == "Error"
ConnectEnabledNotice == "Connect on refresh enabled"
ConnectDisabledNotice == "Connect on refresh disabled"
SelectedFileNotice == "Selected"

(***************************************************************************)
(* components/update_workflow.py and main.py: one orchestration run        *)
(***************************************************************************)
Ev(tag, a, b) == [tag |-> tag, a |-> a, b |-> b]

IdleRun ==
    [pc |-> "idle", devices |-> <<>>, firmware_path |-> NoPath, force |-> FALSE,
     idx |-> 0, success_count |-> 0, fail_count |-> 0, log |-> <<>>,
     uploaded |-> <<>>, results |-> <<>>, raised |-> FALSE, raised_at |-> "none",
     allow_connect |-> NoneOpt, lists |-> 0,
     loading_dialog |-> FALSE, error_dialog |-> "none"]

NewRun(targets, path, force) ==
    [IdleRun EXCEPT !.pc = "start", !.devices = targets, !.firmware_path = path,
                    !.force = force]

IdleRefresh == [pc |-> "idle", owner |-> "user", show_notification |-> FALSE]

\* A handler's view of the state it reads and writes while it runs
Ctx(r) ==
    [run |-> r, has_error |-> has_error, notification |-> notification,
     deploy_button |-> deploy_button, force_upload |-> force_upload,
     is_refreshing |-> is_refreshing, refresh_button |-> refresh_button,
     refresh_dialog |-> refresh_dialog, refresh |-> refresh, rows |-> rows]

Commit(m) ==
    /\ has_error' = m.has_error
    /\ notification' = m.notification
    /\ deploy_button' = m.deploy_button
    /\ force_upload' = m.force_upload
    /\ is_refreshing' = m.is_refreshing
    /\ refresh_button' = m.refresh_button
    /\ refresh_dialog' = m.refresh_dialog
    /\ refresh' = m.refresh
    /\ rows' = m.rows

is_batch(r) == Len(r.devices) > 1

push_log(m, tag, a, b) == [m EXCEPT !.run.log = Append(@, Ev(tag, a, b))]
notify(m, text) == [m EXCEPT !.notification = text]

show_error(m) == [m EXCEPT !.has_error = TRUE, !.run.error_dialog = "error"]
show_error_with_force(m) ==
    [m EXCEPT !.has_error = TRUE, !.run.error_dialog = "error_with_force"]

start_update(m) ==
    push_log(push_log([m EXCEPT !.has_error = FALSE], "start", 0, 0), "target", 0, 0)
start_batch_update(m) ==
    push_log(push_log([m EXCEPT !.has_error = FALSE],
                      "start_batch", Len(m.run.devices), 0), "target", 0, 0)

complete_update(m) == notify(push_log(m, "completed", 0, 0), CompletedNotice)

set_refreshing(m, refreshing) ==
    [m EXCEPT !.is_refreshing = refreshing, !.refresh_button = ~refreshing,
              !.refresh_dialog = refreshing]

\* DeviceTable.update_table: rebuild the rows, then the deploy button
update_table(m) ==
    [m EXCEPT !.rows = PortsOf(devices),
              !.deploy_button =
                  IF firmware_file_path # NoneOpt /\ selected_device # NoneOpt
                  THEN TRUE ELSE @]

\* deploy_firmware's finally block, after on_deploy has returned
deploy_finally(m) ==
    IF selected_device # NoneOpt /\ firmware_file_path # NoneOpt
    THEN [m EXCEPT !.deploy_button = TRUE, !.force_upload = FALSE]
    ELSE m

\* on_firmware_deploy's finally block, then the return into deploy_firmware
Finish_DialogStaysOpen(m) ==
    deploy_finally([m EXCEPT !.run.pc = "done"])
Finish(m) ==
    deploy_finally([m EXCEPT !.run.loading_dialog = FALSE, !.run.pc = "done"])

\* the except block of on_firmware_deploy
HandleException(m) ==
    Finish(notify(show_error(push_log(m, "exception", 0, 0)), UploadErrorNotice))

\* await self.device_table.refresh_devices() at the end of a run
PostRunRefresh(m) ==
    IF m.is_refreshing THEN Finish(m)
    ELSE [notify(set_refreshing(m, TRUE), CheckingNotice) EXCEPT
             !.refresh = [pc |-> "listing", owner |-> "run", show_notification |-> TRUE],
             !.run.pc = "refresh", !.run.lists = @ + 1]

\* Step 3 of on_firmware_deploy for a batch: the summary
BatchSummary_ShowsError(m) ==
    LET r == m.run
        m1 == push_log(m, IF r.fail_count = 0 THEN "batch_complete_success"
                                                ELSE "batch_complete_warning",
                       r.success_count, Len(r.devices))
        m2 == IF r.fail_count > 0
              THEN notify(show_error(push_log(m1, "devices_failed", r.fail_count, 0)),
                          BatchPartialNotice)
              ELSE notify(push_log(m1, "all_updated", 0, 0), BatchSuccessNotice)
    IN PostRunRefresh(m2)
BatchSummary(m) ==
    LET r == m.run
        m1 == push_log(m, IF r.fail_count = 0 THEN "batch_complete_success"
                                                ELSE "batch_complete_warning",
                       r.success_count, Len(r.devices))
        m2 == IF r.fail_count > 0
              THEN notify(push_log(m1, "devices_failed", r.fail_count, 0),
                          BatchPartialNotice)
              ELSE notify(push_log(m1, "all_updated", 0, 0), BatchSuccessNotice)
    IN PostRunRefresh(m2)

\* Step 3 for a single device, up to the reboot wait
SingleVerify_NoRebootWait(m) ==
    PostRunRefresh(complete_update(push_log(
        push_log(push_log(m, "verifying", 0, 0), "reboot_wait", 0, 0),
        "verified", 0, 0)))
SingleVerify(m) ==
    [push_log(push_log(m, "verifying", 0, 0), "reboot_wait", 0, 0) EXCEPT
        !.run.pc = "reboot"]

\* the head of one loop iteration, up to the await of the upload
StartUpload_Reversed(m, i) ==
    LET m1 == IF is_batch(m.run) THEN push_log(m, "device", i, Len(m.run.devices)) ELSE m
        m2 == push_log(m1, IF m.run.force THEN "forced_upload" ELSE "upload", i, 0)
    IN [m2 EXCEPT !.run.idx = i,
                  !.run.uploaded = Append(@, Len(m.run.devices) + 1 - i),
                  !.run.pc = "upload"]
StartUpload(m, i) ==
    LET m1 == IF is_batch(m.run) THEN push_log(m, "device", i, Len(m.run.devices)) ELSE m
        m2 == push_log(m1, IF m.run.force THEN "forced_upload" ELSE "upload", i, 0)
    IN [m2 EXCEPT !.run.idx = i, !.run.uploaded = Append(@, i), !.run.pc = "upload"]

\* the loop goes on to the next device, or ends
NextDevice(m) ==
    IF m.run.idx < Len(m.run.devices) THEN StartUpload(m, m.run.idx + 1)
    ELSE IF is_batch(m.run) THEN BatchSummary(m)
    ELSE SingleVerify(m)

\* the upload of device idx returned success
UploadSucceeded_NoPause(m) ==
    NextDevice(push_log([m EXCEPT !.run.success_count = @ + 1],
                        "upload_ok", m.run.idx, 0))
UploadSucceeded(m) ==
    LET m1 == push_log([m EXCEPT !.run.success_count = @ + 1], "upload_ok", m.run.idx, 0)
    IN IF is_batch(m.run) /\ m.run.idx < Len(m.run.devices)
       THEN [push_log(m1, "waiting", m.run.idx, 0) EXCEPT !.run.pc = "pause"]
       ELSE NextDevice(m1)

\* the upload of device idx returned failure
UploadFailed_HintInverted(m) ==
    LET m1 == push_log([m EXCEPT !.run.fail_count = @ + 1], "upload_failed", m.run.idx, 0)
    IN IF ~is_batch(m.run)
       THEN Finish(notify(IF m.run.force THEN show_error_with_force(m1)
                                         ELSE show_error(m1),
                          UploadFailedNotice))
       ELSE NextDevice(m1)
UploadFailed_AbortsBatch(m) ==
    LET m1 == push_log([m EXCEPT !.run.fail_count = @ + 1], "upload_failed", m.run.idx, 0)
    IN Finish(notify(IF ~m.run.force THEN show_error_with_force(m1) ELSE show_error(m1),
                     UploadFailedNotice))
UploadFailed_ContinuesSingle(m) ==
    NextDevice(push_log([m EXCEPT !.run.fail_count = @ + 1],
                        "upload_failed", m.run.idx, 0))
UploadFailed(m) ==
    LET m1 == push_log([m EXCEPT !.run.fail_count = @ + 1], "upload_failed", m.run.idx, 0)
    IN IF ~is_batch(m.run)
       THEN Finish(notify(IF ~m.run.force THEN show_error_with_force(m1)
                                          ELSE show_error(m1),
                          UploadFailedNotice))
       ELSE NextDevice(m1)

\* on_firmware_deploy from its first line to its first await
StartRun_ConnectPerCheckbox(m) ==
    LET r == m.run
        m0 == [m EXCEPT !.run.loading_dialog = TRUE]
    IN IF r.devices = <<>>
       THEN HandleException([m0 EXCEPT !.run.raised = TRUE, !.run.raised_at = "start"])
       ELSE LET m1 == IF is_batch(r)
                      THEN IF Cardinality({r.devices[k].display_name :
                                              k \in 1..Len(r.devices)}) = 1
                           THEN start_batch_update(m0)
                           ELSE push_log(push_log(m0, "start_batch_mixed",
                                                  Len(r.devices), 0), "target", 0, 0)
                      ELSE start_update(m0)
                m2 == push_log(m1, "validating", 0, 0)
                v == validate_firmware_file(r.devices[1].kind, r.firmware_path)
            IN IF ~v.valid
               THEN Finish(notify(show_error(push_log(m2, "validation_error", 0, 0)),
                                  InvalidFileNotice))
               ELSE [push_log(push_log(m2, "validated", 0, 0), "closing", 0, 0) EXCEPT
                        !.run.pc = "quiesce", !.run.lists = @ + 1,
                        !.run.allow_connect = Some(connect_all_on_refresh)]
StartRun_IgnoresValidation(m) ==
    LET r == m.run
        m0 == [m EXCEPT !.run.loading_dialog = TRUE]
    IN IF r.devices = <<>>
       THEN HandleException([m0 EXCEPT !.run.raised = TRUE, !.run.raised_at = "start"])
       ELSE LET m1 == IF is_batch(r)
                      THEN IF Cardinality({r.devices[k].display_name :
                                              k \in 1..Len(r.devices)}) = 1
                           THEN start_batch_update(m0)
                           ELSE push_log(push_log(m0, "start_batch_mixed",
                                                  Len(r.devices), 0), "target", 0, 0)
                      ELSE start_update(m0)
                m2 == push_log(m1, "validating", 0, 0)
                v == validate_firmware_file(r.devices[1].kind, r.firmware_path)
            IN IF FALSE /\ ~v.valid
               THEN Finish(notify(show_error(push_log(m2, "validation_error", 0, 0)),
                                  InvalidFileNotice))
               ELSE [push_log(push_log(m2, "validated", 0, 0), "closing", 0, 0) EXCEPT
                        !.run.pc = "quiesce", !.run.lists = @ + 1,
                        !.run.allow_connect = Some(FALSE)]
StartRun(m) ==
    LET r == m.run
        m0 == [m EXCEPT !.run.loading_dialog = TRUE]
    IN IF r.devices = <<>>
       THEN HandleException([m0 EXCEPT !.run.raised = TRUE, !.run.raised_at = "start"])
       ELSE LET m1 == IF is_batch(r)
                      THEN IF Cardinality({r.devices[k].display_name :
                                              k \in 1..Len(r.devices)}) = 1
                           THEN start_batch_update(m0)
                           ELSE push_log(push_log(m0, "start_batch_mixed",
                                                  Len(r.devices), 0), "target", 0, 0)
                      ELSE start_update(m0)
                m2 == push_log(m1, "validating", 0, 0)
                v == validate_firmware_file(r.devices[1].kind, r.firmware_path)
            IN IF ~v.valid
               THEN Finish(notify(show_error(push_log(m2, "validation_error", 0, 0)),
                                  InvalidFileNotice))
               ELSE [push_log(push_log(m2, "validated", 0, 0), "closing", 0, 0) EXCEPT
                        !.run.pc = "quiesce", !.run.lists = @ + 1,
                        !.run.allow_connect = Some(FALSE)]

(***************************************************************************)
(* Actions: the steps of a run between its await points                    *)
(***************************************************************************)
callVars == <<decision, device_kind, firmware_path, validation, serviceVars>>

CommitRun(m) == Commit(m) /\ run' = m.run

first_by_port(devs, port) ==
    LET found == SelectSeq(devs, LAMBDA d : d.port_name = port)
    IN IF found = <<>> THEN NoneOpt ELSE Some(found[1])

same_name(devs, dev) == SelectSeq(devs, LAMBDA d : d.display_name = dev.display_name)

\* deploy_firmware's early returns: ui.notify(...) and return
DeployReturnEarly_ButtonDisabled(text) ==
    /\ notification' = text
    /\ deploy_button' = FALSE
    /\ UNCHANGED <<rows, force_upload, is_refreshing,
                   refresh_button, refresh_dialog, refresh, has_error, run>>
DeployReturnEarly(text) ==
    /\ notification' = text
    /\ UNCHANGED <<rows, deploy_button, force_upload, is_refreshing,
                   refresh_button, refresh_dialog, refresh, has_error, run>>

\* DeviceTable.deploy_firmware: the click, up to the first await of the run.
\* One run is followed at a time: a click that passes the gate while a run is
\* still in flight is not taken as a step (such states remain visible as states
\* where the button is enabled and the gate allows while run.pc is in flight).
DeployFirmware_CheckboxOnly ==
    /\ deploy_button
    /\ IF selected_device = NoneOpt
       THEN DeployReturnEarly(SelectFirstNotice)
       ELSE IF firmware_file_path = NoneOpt
       THEN DeployReturnEarly(SelectFileNotice)
       ELSE IF ~get_deploy_eligibility(devices, selected_device, batch_update).ok
       THEN DeployReturnEarly(
                get_deploy_eligibility(devices, selected_device, batch_update).reason)
       ELSE /\ run.pc \in {"idle", "done"}
            /\ LET targets == IF batch_update
                              THEN same_name(devices, selected_device[1])
                              ELSE <<selected_device[1]>>
                   m0 == [Ctx(NewRun(targets, firmware_file_path[1], force_upload))
                             EXCEPT !.deploy_button = FALSE]
               IN CommitRun(StartRun(m0))
    /\ UNCHANGED <<devices, selected_device, firmware_file_path, batch_update,
                   connect_all_on_refresh, callVars>>
DeployFirmware ==
    /\ deploy_button
    /\ IF selected_device = NoneOpt
       THEN DeployReturnEarly(SelectFirstNotice)
       ELSE IF firmware_file_path = NoneOpt
       THEN DeployReturnEarly(SelectFileNotice)
       ELSE IF ~get_deploy_eligibility(devices, selected_device, batch_update).ok
       THEN DeployReturnEarly(
                get_deploy_eligibility(devices, selected_device, batch_update).reason)
       ELSE /\ run.pc \in {"idle", "done"}
            /\ LET force == IF selected_device[1].kind \in {"Pico", "PICO"}
                            THEN TRUE ELSE force_upload
                   targets == IF batch_update
                              THEN same_name(devices, selected_device[1])
                              ELSE <<selected_device[1]>>
                   m0 == [Ctx(NewRun(targets, firmware_file_path[1], force)) EXCEPT
                             !.deploy_button = FALSE, !.force_upload = force]
               IN CommitRun(StartRun(m0))
    /\ UNCHANGED <<devices, selected_device, firmware_file_path, batch_update,
                   connect_all_on_refresh, callVars>>

\* on_firmware_deploy called with a request of its own
CallOnDeploy ==
    /\ run.pc = "start"
    /\ CommitRun(StartRun(Ctx(run)))
    /\ UNCHANGED <<devices, selected_device, firmware_file_path, batch_update,
                   connect_all_on_refresh, callVars>>

\* run.cpu_bound(device_manager.refresh_devices, allow_connect=False) returned or
\* raised; cpu_bound runs it in a worker process, on a copy of the device manager
QuiesceDone ==
    /\ run.pc = "quiesce"
    /\ \/ CommitRun([Ctx(run) EXCEPT !.run.pc = "settle"])
       \/ CommitRun(HandleException(Ctx([run EXCEPT !.raised = TRUE,
                                                     !.raised_at = "quiesce"])))
    /\ UNCHANGED <<devices, selected_device, firmware_file_path, batch_update,
                   connect_all_on_refresh, callVars>>

\* the 3 s wait for the OS to release the ports is over: the loop starts
SettleDone ==
    /\ run.pc = "settle"
    /\ CommitRun(NextDevice(Ctx(run)))
    /\ UNCHANGED <<devices, selected_device, firmware_file_path, batch_update,
                   connect_all_on_refresh, callVars>>

\* run.cpu_bound(device_manager.upload_firmware_to_device, ...) returned or raised
UploadDone ==
    /\ run.pc = "upload"
    /\ \/ CommitRun(UploadSucceeded(Ctx([run EXCEPT !.results = Append(@, "ok")])))
       \/ CommitRun(UploadFailed(Ctx([run EXCEPT !.results = Append(@, "failed")])))
       \/ CommitRun(HandleException(Ctx([run EXCEPT !.raised = TRUE,
                                                     !.raised_at = "upload"])))
    /\ UNCHANGED <<devices, selected_device, firmware_file_path, batch_update,
                   connect_all_on_refresh, callVars>>

\* the 2 s wait between two devices of a batch is over
PauseDone ==
    /\ run.pc = "pause"
    /\ CommitRun(NextDevice(Ctx(run)))
    /\ UNCHANGED <<devices, selected_device, firmware_file_path, batch_update,
                   connect_all_on_refresh, callVars>>

\* the 3 s wait for the reboot is over: verified, completed, then the refresh
RebootDone ==
    /\ run.pc = "reboot"
    /\ CommitRun(PostRunRefresh(complete_update(push_log(Ctx(run), "verified", 0, 0))))
    /\ UNCHANGED <<devices, selected_device, firmware_file_path, batch_update,
                   connect_all_on_refresh, callVars>>

(***************************************************************************)
(* Actions: DeviceTable.refresh_devices                                    *)
(***************************************************************************)
\* the refresh button, the initial timer or the connect-all toggle calls refresh_devices
RefreshDevices_NoGuard ==
    /\ \E show \in BOOLEAN :
         LET m == Ctx(run)
         IN Commit([(IF show THEN notify(set_refreshing(m, TRUE), CheckingNotice)
                             ELSE set_refreshing(m, TRUE)) EXCEPT
                       !.refresh = [pc |-> "listing", owner |-> "user",
                                    show_notification |-> show]])
    /\ UNCHANGED <<devices, selected_device, firmware_file_path, batch_update, run,
                   connect_all_on_refresh, callVars>>
RefreshDevices ==
    /\ \E show \in BOOLEAN :
         LET m == Ctx(run)
         IN IF is_refreshing THEN Commit(m)
            ELSE Commit([(IF show THEN notify(set_refreshing(m, TRUE), CheckingNotice)
                                  ELSE set_refreshing(m, TRUE)) EXCEPT
                            !.refresh = [pc |-> "listing", owner |-> "user",
                                         show_notification |-> show]])
    /\ UNCHANGED <<devices, selected_device, firmware_file_path, batch_update, run,
                   connect_all_on_refresh, callVars>>

\* run.io_bound(device_manager.refresh_devices, ...) finishes in its thread
RefreshThread ==
    /\ refresh.pc = "listing"
    /\ \/ /\ \E inv \in Inventories : devices' = inv
          /\ refresh' = [refresh EXCEPT !.pc = "listed"]
       \/ /\ devices' = devices
          /\ refresh' = [refresh EXCEPT !.pc = "raised"]
    /\ UNCHANGED <<rows, selected_device, firmware_file_path, deploy_button,
                   force_upload, batch_update, is_refreshing, refresh_button,
                   refresh_dialog, has_error, notification, run,
                   connect_all_on_refresh, callVars>>

\* refresh_devices resumes after its await; a run awaiting it then returns
RefreshResume_NoFinally ==
    /\ refresh.pc \in {"listed", "raised"}
    /\ LET m0 == Ctx(run)
           m2 == IF refresh.pc = "listed"
                 THEN LET t == update_table(m0)
                          n == IF refresh.show_notification THEN notify(t, FoundNotice)
                               ELSE t
                      IN [set_refreshing(n, FALSE) EXCEPT !.refresh = IdleRefresh]
                 ELSE [notify(m0, RefreshErrorNotice) EXCEPT !.refresh = IdleRefresh]
       IN IF refresh.owner = "user" THEN CommitRun(m2) ELSE CommitRun(Finish(m2))
    /\ UNCHANGED <<devices, selected_device, firmware_file_path, batch_update,
                   connect_all_on_refresh, callVars>>
RefreshResume ==
    /\ refresh.pc \in {"listed", "raised"}
    /\ LET m0 == Ctx(run)
           m1 == IF refresh.pc = "listed"
                 THEN LET t == update_table(m0)
                      IN IF refresh.show_notification THEN notify(t, FoundNotice) ELSE t
                 ELSE notify(m0, RefreshErrorNotice)
           m2 == [set_refreshing(m1, FALSE) EXCEPT !.refresh = IdleRefresh]
       IN IF refresh.owner = "user" THEN CommitRun(m2) ELSE CommitRun(Finish(m2))
    /\ UNCHANGED <<devices, selected_device, firmware_file_path, batch_update,
                   connect_all_on_refresh, callVars>>

(***************************************************************************)
(* Actions: the other user intents                                         *)
(***************************************************************************)
\* DeviceTable.on_row_select with one row selected
SelectRow ==
    /\ \E k \in 1..Len(rows) :
         /\ selected_device' = first_by_port(devices, rows[k])
         /\ deploy_button' = IF firmware_file_path # NoneOpt /\ selected_device' # NoneOpt
                             THEN TRUE ELSE deploy_button
    /\ UNCHANGED <<devices, rows, firmware_file_path, force_upload, batch_update,
                   is_refreshing, refresh_button, refresh_dialog, refresh, has_error,
                   notification, run,
                   connect_all_on_refresh, callVars>>

\* DeviceTable.on_row_select with the selection cleared
DeselectRow ==
    /\ selected_device' = NoneOpt
    /\ deploy_button' = FALSE
    /\ UNCHANGED <<devices, rows, firmware_file_path, force_upload, batch_update,
                   is_refreshing, refresh_button, refresh_dialog, refresh, has_error,
                   notification, run,
                   connect_all_on_refresh, callVars>>

\* DeviceTable.browse_firmware once the file dialog has returned a path
BrowseFirmware ==
    /\ \E path \in PickedFiles : firmware_file_path' = Some(path)
    /\ deploy_button' = IF selected_device # NoneOpt THEN TRUE ELSE deploy_button
    /\ notification' = SelectedFileNotice
    /\ UNCHANGED <<devices, rows, selected_device, force_upload, batch_update,
                   is_refreshing, refresh_button, refresh_dialog, refresh, has_error,
                   run, connect_all_on_refresh, callVars>>

\* the user toggles the force-upload checkbox
ToggleForce ==
    /\ force_upload' = ~force_upload
    /\ UNCHANGED <<devices, rows, selected_device, firmware_file_path, deploy_button,
                   batch_update, is_refreshing, refresh_button, refresh_dialog, refresh,
                   has_error, notification, run,
                   connect_all_on_refresh, callVars>>

\* DeviceTable.on_connect_all_refresh_toggle: the checkbox has set the flag
ToggleConnectAll ==
    /\ connect_all_on_refresh' = ~connect_all_on_refresh
    /\ IF connect_all_on_refresh'
       THEN LET m == notify(Ctx(run), ConnectEnabledNotice)
            IN IF is_refreshing THEN Commit(m)
               ELSE Commit([set_refreshing(m, TRUE) EXCEPT
                               !.refresh = [pc |-> "listing", owner |-> "user",
                                            show_notification |-> FALSE]])
       ELSE Commit(notify(Ctx(run), ConnectDisabledNotice))
    /\ UNCHANGED <<devices, selected_device, firmware_file_path, batch_update, run,
                   callVars>>

\* the user toggles the batch-update checkbox
ToggleBatch ==
    /\ batch_update' = ~batch_update
    /\ UNCHANGED <<devices, rows, selected_device, firmware_file_path, deploy_button,
                   force_upload, is_refreshing, refresh_button, refresh_dialog, refresh,
                   has_error, notification, run,
                   connect_all_on_refresh, callVars>>

(***************************************************************************)
(* Specifications                                                          *)
(***************************************************************************)
\* the widgets after __init__ and render()
WidgetInit ==
    /\ deploy_button = FALSE
    /\ is_refreshing = FALSE
    /\ refresh_button = TRUE
    /\ refresh_dialog = FALSE
    /\ refresh = IdleRefresh
    /\ has_error = FALSE
    /\ notification = None

AppInit ==
    /\ devices = <<>>
    /\ rows = <<>>
    /\ selected_device = NoneOpt
    /\ firmware_file_path = NoneOpt
    /\ force_upload = FALSE
    /\ batch_update = FALSE
    /\ connect_all_on_refresh = FALSE
    /\ run = IdleRun
    /\ WidgetInit

\* the service objects after construction, no call made
IdleProc == [launched |-> TRUE, returncode |-> 0, stdout |-> <<>>, stderr |-> <<>>]
IdleFields ==
    [port_name |-> "COM3", state |-> "Online", kind |-> "Pico",
     device_description |-> None, who_am_i |-> NoneOpt]
CliIdle == cli = NoCliCall(IdleProc)
InspectIdle == firmware_cache = EmptyCache /\ inspections = <<>>
DeviceIdle == constructed = NotConstructed(IdleFields)
ServiceInit == CliIdle /\ InspectIdle /\ DeviceIdle

CallInit ==
    /\ decision = NoDecision
    /\ device_kind = "Pico"
    /\ firmware_path = NoPath
    /\ validation = NoValidation
    /\ ServiceInit

Init == AppInit /\ CallInit

RunNext ==
    \/ QuiesceDone
    \/ SettleDone
    \/ UploadDone
    \/ PauseDone
    \/ RebootDone

RefreshNext ==
    \/ RefreshDevices
    \/ RefreshThread
    \/ RefreshResume

Next ==
    \/ DeployFirmware
    \/ RunNext
    \/ RefreshNext
    \/ SelectRow
    \/ DeselectRow
    \/ BrowseFirmware
    \/ ToggleForce
    \/ ToggleBatch
    \/ ToggleConnectAll

\* the application under every sequence of user intents
Spec == Init /\ [][Next]_vars

\* on_firmware_deploy on every request, as deploy_firmware leaves the widgets
\* when it calls on_deploy
OrchestratorInit ==
    /\ \E targets \in SeqsUpTo(RequestDevices, MaxTargets) :
       \E path \in RequestPaths :
       \E force \in BOOLEAN :
         /\ run = NewRun(targets, path, force)
         /\ devices = targets
         /\ rows = PortsOf(targets)
         /\ selected_device = (IF targets = <<>> THEN NoneOpt ELSE Some(targets[1]))
         /\ firmware_file_path = Some(path)
         /\ force_upload = force
    \* only the batch branch of deploy_firmware passes more than one target
    /\ batch_update \in (IF Len(run.devices) > 1 THEN {TRUE} ELSE BOOLEAN)
    /\ connect_all_on_refresh \in BOOLEAN
    /\ WidgetInit
    /\ CallInit

OrchestratorNext ==
    \/ CallOnDeploy
    \/ RunNext
    \/ RefreshNext

OrchestratorSpec == OrchestratorInit /\ [][OrchestratorNext]_vars

\* The event loop resumes every coroutine whose await has completed, and every
\* awaited call (worker process, thread, sleep) returns or raises. The user's
\* own refresh requests are under no obligation.
OrchestratorFairness ==
    /\ WF_vars(CallOnDeploy \/ RunNext)
    /\ WF_vars(RefreshThread \/ RefreshResume)
\* The requests followed to their end: the run reads the kind of its first target
\* only, and never the checkboxes, so the other targets repeat the first.
FairOrchestratorInit ==
    /\ OrchestratorInit
    /\ Len(run.devices) <= 1 => ~batch_update
    /\ ~connect_all_on_refresh
    /\ \A k \in 1..Len(run.devices) : run.devices[k] = run.devices[1]
FairOrchestratorSpec ==
    FairOrchestratorInit /\ [][OrchestratorNext]_vars /\ OrchestratorFairness

\* the eligibility gate on every inventory, selection and batch flag
GateInit ==
    /\ devices \in SeqsUpTo(GateDevices, MaxDevices)
    /\ selected_device \in {NoneOpt} \cup {Some(d) : d \in GateDevices}
    /\ batch_update \in BOOLEAN
    /\ rows = PortsOf(devices)
    /\ firmware_file_path = NoneOpt
    /\ force_upload = FALSE
    /\ connect_all_on_refresh = FALSE
    /\ run = IdleRun
    /\ WidgetInit
    /\ CallInit

GateNext == EvaluateEligibility

GateSpec == GateInit /\ [][GateNext]_vars

\* the validator on every device kind and firmware path
ValidatorInit ==
    /\ AppInit
    /\ decision = NoDecision
    /\ device_kind \in ValidatorKinds
    /\ firmware_path \in ValidatorPaths
    /\ validation = NoValidation
    /\ ServiceInit

ValidatorNext == ValidateFirmware

ValidatorSpec == ValidatorInit /\ [][ValidatorNext]_vars

ValidatorIdle ==
    /\ decision = NoDecision
    /\ device_kind = "Pico"
    /\ firmware_path = NoPath
    /\ validation = NoValidation

\* the CLI wrapper on every outcome of the external process
CliInit ==
    /\ AppInit
    /\ ValidatorIdle
    /\ cli \in {NoCliCall(proc) : proc \in ProcOutcomes}
    /\ InspectIdle
    /\ DeviceIdle

CliNext == ListDevices \/ UploadFirmware

CliSpec == CliInit /\ [][CliNext]_vars

\* the firmware service under every sequence of inspections
InspectInit == AppInit /\ CallInit

InspectNext == InspectFirmware

InspectSpec == InspectInit /\ [][InspectNext]_vars

\* the Device model on every combination of fields
DeviceInit ==
    /\ AppInit
    /\ ValidatorIdle
    /\ CliIdle
    /\ InspectIdle
    /\ constructed \in {NotConstructed(fields) : fields \in DeviceInputs}

DeviceNext == ConstructDevice

DeviceSpec == DeviceInit /\ [][DeviceNext]_vars

(***************************************************************************)
(* Properties of the eligibility gate (GateSpec)                           *)
(***************************************************************************)
Evaluated == decision # NoDecision

HasErrorDevice(devs) ==
    \E k \in 1..Len(devs) : devs[k].state \in {"DriverError", "DeviceError"}
BootloaderIndexes(devs) == {k \in 1..Len(devs) : devs[k].state = "Bootloader"}
BootloaderCount(devs) == Cardinality(BootloaderIndexes(devs))
TheBootloader(devs) == devs[CHOOSE k \in BootloaderIndexes(devs) : TRUE]
SelectionMatchesBootloader ==
    /\ selected_device # NoneOpt
    /\ selected_device[1].port_name = TheBootloader(devices).port_name
MentionsBootloaderDevice(reason) ==
    reason \in {SelectBootloaderReason, OnlyBootloaderReason}

\* C1: an inventory with a device in DriverError or DeviceError state is always
\* blocked, with a reason, whatever the selection, the batch flag and the number
\* of Bootloader devices.
C1_ErrorDeviceBlocks ==
    (Evaluated /\ HasErrorDevice(devices))
        => (~decision.ok /\ decision.reason # None)

C1_Witness ==
    /\ Evaluated
    /\ \E k \in 1..Len(devices) : devices[k].state = "DeviceError"
    /\ BootloaderCount(devices) = 1
    /\ SelectionMatchesBootloader
    /\ ~batch_update
    /\ ~decision.ok

\* C2 as stated: exactly one Bootloader device, the selection on its port and
\* batch off give allowed, for all inventories.
C2_Original ==
    (/\ Evaluated
     /\ BootloaderCount(devices) = 1
     /\ SelectionMatchesBootloader
     /\ ~batch_update)
        => decision.ok

\* C2 amended: exactly one Bootloader device, no device in DriverError or
\* DeviceError state, the selection on the Bootloader device's port and batch
\* off give allowed.
C2_SingleBootloaderAllowed ==
    (/\ Evaluated
     /\ BootloaderCount(devices) = 1
     /\ ~HasErrorDevice(devices)
     /\ SelectionMatchesBootloader
     /\ ~batch_update)
        => (decision.ok /\ decision.reason = None)

C2_Witness ==
    /\ Evaluated
    /\ BootloaderCount(devices) = 1
    /\ Len(devices) > 1
    /\ ~HasErrorDevice(devices)
    /\ SelectionMatchesBootloader
    /\ ~batch_update
    /\ decision.ok

\* C3: with exactly one Bootloader device and the batch checkbox set the gate
\* blocks, for every selection.
C3_SingleBootloaderBatchBlocked ==
    (Evaluated /\ BootloaderCount(devices) = 1 /\ batch_update) => ~decision.ok

C3_Witness ==
    /\ Evaluated
    /\ BootloaderCount(devices) = 1
    /\ ~HasErrorDevice(devices)
    /\ SelectionMatchesBootloader
    /\ batch_update
    /\ decision = Blocked(BatchBootloaderReason)

\* C4: with two or more Bootloader devices the gate blocks, whatever the
\* selection, the batch flag and the other devices' states.
C4_MultipleBootloadersBlocked ==
    (Evaluated /\ BootloaderCount(devices) >= 2) => ~decision.ok

C4_Witness ==
    /\ Evaluated
    /\ BootloaderCount(devices) = 2
    /\ ~HasErrorDevice(devices)
    /\ selected_device # NoneOpt
    /\ decision = Blocked(MultipleBootloaderReason)

\* C5: with exactly one Bootloader device and no error device the gate blocks
\* when nothing is selected or the selected port is not the Bootloader
\* device's; on a port mismatch the reason mentions the bootloader device.
C5_OnlyTheBootloaderDevice ==
    (/\ Evaluated
     /\ BootloaderCount(devices) = 1
     /\ ~HasErrorDevice(devices)
     /\ ~SelectionMatchesBootloader)
        => /\ ~decision.ok
           /\ selected_device # NoneOpt => MentionsBootloaderDevice(decision.reason)

C5_Witness ==
    /\ Evaluated
    /\ BootloaderCount(devices) = 1
    /\ ~HasErrorDevice(devices)
    /\ selected_device # NoneOpt
    /\ selected_device[1].state = "Online"
    /\ ~SelectionMatchesBootloader
    /\ decision = Blocked(OnlyBootloaderReason)

(***************************************************************************)
(* Properties of the deploy click (Spec)                                   *)
(***************************************************************************)
\* C6: a deploy click whose decision is blocked (it shows the blocking reason)
\* starts no run, so nothing is validated, listed or uploaded, and it leaves
\* the deploy button, the force checkbox, the selection and the firmware path
\* as they were.
C6_BlockedClickDoesNothing ==
    [][(notification' \in BlockedReasons /\ notification' # notification)
          => UNCHANGED <<run, refresh, is_refreshing, devices, rows, has_error,
                         deploy_button, force_upload, batch_update,
                         selected_device, firmware_file_path>>]_vars

C6_Witness ==
    /\ notification = OnlyBootloaderReason
    /\ devices = <<BootB, SensorA>>
    /\ selected_device = Some(SensorA)
    /\ firmware_file_path = Some(FwUf2)
    /\ deploy_button
    /\ run = IdleRun

(***************************************************************************)
(* Properties of one orchestration run (OrchestratorSpec)                  *)
(***************************************************************************)
CountEv(tag, a) ==
    Cardinality({k \in 1..Len(run.log) : run.log[k].tag = tag /\ run.log[k].a = a})
HasEv(tag) == \E k \in 1..Len(run.log) : run.log[k].tag = tag
FailedIndexes == {i \in 1..Len(run.results) : run.results[i] = "failed"}
ValidationPasses ==
    /\ run.devices # <<>>
    /\ validate_firmware_file(run.devices[1].kind, run.firmware_path).valid
VerificationEvents == {"verifying", "reboot_wait", "verified", "completed"}

\* C7: a batch run (N > 1 targets) that passes validation and in which no call
\* raises ends with upload invoked once for each of the N targets in order,
\* whichever of them failed, one failure event for each failed target and none
\* for the others, and the counts N-k and k in the counters and in the summary.
C7_BatchRunsAllTargets ==
    (/\ run.pc = "done"
     /\ Len(run.devices) > 1
     /\ ValidationPasses
     /\ ~run.raised)
        => LET N == Len(run.devices)
               k == Cardinality(FailedIndexes)
           IN /\ run.uploaded = [i \in 1..N |-> i]
              /\ Len(run.results) = N
              /\ \A i \in 1..N :
                    CountEv("upload_failed", i) = (IF i \in FailedIndexes THEN 1 ELSE 0)
              /\ run.success_count = N - k
              /\ run.fail_count = k
              /\ \E e \in 1..Len(run.log) :
                    /\ run.log[e].tag \in {"batch_complete_success", "batch_complete_warning"}
                    /\ run.log[e].a = N - k
                    /\ run.log[e].b = N
              /\ k > 0 => CountEv("devices_failed", k) = 1

C7_Witness ==
    /\ run.pc = "done"
    /\ Len(run.devices) = 3
    /\ run.results = <<"failed", "ok", "failed">>
    /\ run.fail_count = 2
    /\ ~run.raised

\* C8: in a single-device run the failure of the upload ends the run at once:
\* one upload invocation, no verification or completion event, the error
\* dialog shown and has_error set.
C8_SingleAbortsOnFailure ==
    (Len(run.devices) = 1 /\ run.results = <<"failed">>)
        => /\ run.pc = "done"
           /\ run.uploaded = <<1>>
           /\ \A k \in 1..Len(run.log) : run.log[k].tag \notin VerificationEvents
           /\ run.error_dialog \in {"error", "error_with_force"}
           /\ has_error

C8_Witness ==
    /\ Len(run.devices) = 1
    /\ run.results = <<"failed">>
    /\ run.pc = "done"
    /\ run.error_dialog = "error_with_force"

\* C9: a run (single or batch) whose firmware file fails validation ends
\* failed with a validation-error event and the error dialog, having invoked
\* no upload and no device listing.
C9_ValidationFailureTouchesNothing ==
    (run.pc # "start" /\ run.devices # <<>> /\ ~ValidationPasses)
        => /\ run.pc = "done"
           /\ run.uploaded = <<>>
           /\ run.results = <<>>
           /\ run.lists = 0
           /\ refresh.owner # "run"
           /\ CountEv("validation_error", 0) = 1
           /\ run.error_dialog = "error"
           /\ has_error

C9_Witness ==
    /\ run.pc = "done"
    /\ Len(run.devices) = 3
    /\ run.firmware_path = FwBin
    /\ run.uploaded = <<>>
    /\ HasEv("validation_error")

(***************************************************************************)
(* Properties of the validator (ValidatorSpec)                             *)
(***************************************************************************)
Validated == validation # NoValidation

\* the name ends in a dot and the given extension, in either case, after a stem
HasExtension(name, spellings) ==
    /\ Len(name) >= 3
    /\ name[Len(name) - 1] = "."
    /\ name[Len(name)] \in spellings

\* C10: for kind Pico the file is valid exactly when it exists and its extension
\* is .uf2; for kind ATxmega exactly when it exists and its extension is .hex.
C10_ValidIffExistsAndExtension ==
    Validated =>
        /\ device_kind = "Pico" =>
              (validation.valid <=>
                  (firmware_path.exists /\ HasExtension(firmware_path.name, {"uf2", "UF2"})))
        /\ device_kind = "ATxmega" =>
              (validation.valid <=>
                  (firmware_path.exists /\ HasExtension(firmware_path.name, {"hex", "HEX"})))

C10_Witness ==
    /\ Validated
    /\ device_kind = "ATxmega"
    /\ firmware_path = [exists |-> TRUE, name |-> <<"fw", ".", "HEX">>]
    /\ validation = Valid

\* the device family a recognized extension belongs to
FamilyOf(name) ==
    IF HasExtension(name, {"uf2", "UF2"}) THEN "Pico"
    ELSE IF HasExtension(name, {"hex", "HEX"}) THEN "ATxmega"
    ELSE "none"
Recognized(name) == FamilyOf(name) # "none"

\* C11: an existing file with a recognized extension is invalid for every device
\* kind that is not the family of that extension, also for a kind that is
\* neither Pico nor ATxmega.
C11_WrongKindInvalid ==
    (/\ Validated
     /\ firmware_path.exists
     /\ Recognized(firmware_path.name)
     /\ device_kind # FamilyOf(firmware_path.name))
        => ~validation.valid

\* C12: the rules apply in order: a missing file gives the file-not-found error
\* whatever the extension and the kind; an existing file whose extension is not
\* recognized gives the unsupported-format error whatever the kind; a kind
\* mismatch is reported only for an existing file with a recognized extension.
C12_FirstFailureWins ==
    Validated =>
        /\ ~firmware_path.exists => validation = Invalid(FileNotFound)
        /\ (firmware_path.exists /\ ~Recognized(firmware_path.name))
              => validation = Invalid(UnsupportedFormat)
        /\ validation.error \in {PicoNeedsUf2, ATxmegaNeedsHex}
              => (firmware_path.exists /\ Recognized(firmware_path.name))

C12_Witness ==
    /\ Validated
    /\ ~firmware_path.exists
    /\ firmware_path.name = <<"fw", ".", "bin">>
    /\ device_kind = "ATxmega"
    /\ validation = Invalid(FileNotFound)

(***************************************************************************)
(* Properties of a run: order of the uploads                               *)
(***************************************************************************)
\* uploads invoked and not yet returned or raised
UploadsInFlight ==
    Len(run.uploaded) - Len(run.results) - (IF run.raised_at = "upload" THEN 1 ELSE 0)

\* C13: within one run the uploads are invoked in the order of the request's
\* device list, each target at most once, and the next upload is invoked only
\* after the previous one has returned: at most one upload is in flight.
C13_UploadsInOrderOneAtATime ==
    /\ Len(run.uploaded) <= Len(run.devices)
    /\ \A k \in 1..Len(run.uploaded) : run.uploaded[k] = k
    /\ UploadsInFlight \in {0, 1}
    /\ UploadsInFlight = 1 <=> run.pc = "upload"

C13_Witness ==
    /\ run.pc = "upload"
    /\ run.uploaded = <<1, 2, 3>>
    /\ run.results = <<"failed", "ok">>

(***************************************************************************)
(* Properties of the concurrency guards                                    *)
(***************************************************************************)
\* the coroutine of a run has started and has not returned
RunInFlight == run.pc \in {"quiesce", "settle", "upload", "pause", "reboot", "refresh"}

\* a click on the deploy button now passes every early return of deploy_firmware
\* and calls on_deploy
ClickStartsRun ==
    /\ deploy_button
    /\ selected_device # NoneOpt
    /\ firmware_file_path # NoneOpt
    /\ get_deploy_eligibility(devices, selected_device, batch_update).ok

\* C14: while a run is in flight no second run can be started: the deploy
\* control stays disabled (or the click is refused) until the run has returned.
C14_NoSecondRunWhileInFlight == RunInFlight => ~ClickStartsRun

\* C15: the list command is never in flight twice: the table refresh
\* (run.io_bound in DeviceTable.refresh_devices) and the connection-closing
\* refresh of a run (run.cpu_bound in on_firmware_deploy) do not overlap.
C15_OneListCommandAtATime == ~(refresh.pc = "listing" /\ run.pc = "quiesce")

\* the step in which a run reaches its await of device_table.refresh_devices():
\* the one that logs the end of step 3
RunRequestsRefresh ==
    /\ Len(run'.log) > Len(run.log)
    /\ run'.log[Len(run'.log)].tag \in {"completed", "all_updated", "devices_failed"}

\* C16: a table refresh requested while is_refreshing is set is rejected: it
\* invokes no list command and leaves the flag, the refresh controls, the call
\* in flight, the cache and the rows as they are. This holds for the user's
\* requests and for the request a run makes after its last upload.
C16_RefreshRejectedWhileRefreshing ==
    [][(is_refreshing /\ (RefreshDevices \/ RunRequestsRefresh))
          => /\ UNCHANGED <<is_refreshing, refresh_button, refresh_dialog, refresh,
                            devices, rows>>
             /\ run'.lists = run.lists]_vars

\* a run finished while a user's refresh was listing: its own request was rejected
C16_Witness ==
    /\ run.pc = "done"
    /\ HasEv("completed")
    /\ run.lists = 1
    /\ is_refreshing
    /\ refresh = [pc |-> "listing", owner |-> "user", show_notification |-> TRUE]

(***************************************************************************)
(* Properties of a run: the refresh after the run                          *)
(***************************************************************************)
\* list commands a run has invoked after its connection-closing refresh
PostLists == run.lists - (IF HasEv("closing") THEN 1 ELSE 0)

\* step 3 of the run has ended: single success or batch summary
CompletedRun == HasEv("completed") \/ HasEv("all_updated") \/ HasEv("devices_failed")

\* C17: every run that ends Completed or recoverably Failed (validation
\* failure, single-device upload failure) has triggered exactly one inventory
\* refresh by the time it has returned.
C17_RefreshAfterEveryRun == (run.pc = "done" /\ ~run.raised) => PostLists = 1

\* C18: a connection-closing refresh that raises does not abort the run: the
\* run shows no error dialog and goes on to invoke the upload.
C18_QuiesceFailureDoesNotAbort ==
    run.raised_at = "quiesce"
        => /\ run.error_dialog = "none"
           /\ run.pc = "done" => run.uploaded # <<>>

(***************************************************************************)
(* Properties of a run: termination                                        *)
(***************************************************************************)
\* C19: every run ends: it reaches its terminal state with the loading dialog
\* closed, whatever path it takes; an exception raised by an awaited call is
\* caught, logged and shown as an error before the run ends.
C19_RunEndsAndClosesDialog ==
    /\ [](run.pc = "done" => ~run.loading_dialog)
    /\ [](run.raised => (/\ run.pc = "done"
                         /\ HasEv("exception")
                         /\ run.error_dialog = "error"
                         /\ has_error))
    /\ (run.pc # "done") ~> (run.pc = "done" /\ ~run.loading_dialog)

C19_Witness ==
    /\ run.pc = "done"
    /\ ~run.loading_dialog
    /\ Len(run.devices) = 3
    /\ run.raised_at = "upload"
    /\ run.results = <<"ok", "failed">>
    /\ HasEv("exception")

(***************************************************************************)
(* Properties of a run: how a batch reports                                *)
(***************************************************************************)
\* C20: a batch run that passes validation and in which no call raises never
\* opens an error dialog, whatever its uploads return: has_error stays false,
\* and once the loop has ended the outcome is in the summary events.
C20_BatchReportsBySummaryOnly ==
    (/\ Len(run.devices) > 1
     /\ ValidationPasses
     /\ ~run.raised)
        => /\ run.error_dialog = "none"
           /\ ~has_error
           /\ run.pc \in {"refresh", "done"}
                 => /\ HasEv("batch_complete_success") \/ HasEv("batch_complete_warning")
                    /\ HasEv("devices_failed") <=> FailedIndexes # {}
                    /\ HasEv("all_updated") <=> FailedIndexes = {}

C20_Witness ==
    /\ run.pc = "done"
    /\ Len(run.devices) = 3
    /\ run.results = <<"failed", "failed", "failed">>
    /\ ~run.raised
    /\ run.error_dialog = "none"
    /\ ~has_error
    /\ HasEv("devices_failed")

(***************************************************************************)
(* Properties of a run: failure presentation, pauses, verification         *)
(***************************************************************************)
SingleUploadFailed ==
    /\ run.pc = "done"
    /\ Len(run.devices) = 1
    /\ run.results = <<"failed">>

\* C21: when the upload of a single-device run fails, the error dialog carries
\* the force-upload hint if force was not set for the run, and is the plain
\* error dialog if force was set.
C21_ForceHintOnlyWithoutForce ==
    SingleUploadFailed
        => /\ has_error
           /\ run.error_dialog = (IF run.force THEN "error" ELSE "error_with_force")

C21_Witness ==
    /\ SingleUploadFailed
    /\ ~run.force
    /\ run.error_dialog = "error_with_force"

\* position of the first event with this tag and index in the run's log, 0 if none
EvPos(tag, a) ==
    LET at == {k \in 1..Len(run.log) : run.log[k].tag = tag /\ run.log[k].a = a}
    IN IF at = {} THEN 0 ELSE CHOOSE k \in at : \A j \in at : k <= j

UploadStartPos(i) ==
    IF run.force THEN EvPos("forced_upload", i) ELSE EvPos("upload", i)

\* C22: in a batch the pause event and the wait come after upload i exactly when
\* upload i succeeded and more devices remain, and the upload of device i+1 is
\* invoked only when the wait is over; there is no pause after the last device
\* and none in a single-device run.
C22_PauseBetweenBatchDevices ==
    /\ [](\A i \in 1..Len(run.devices) :
            /\ CountEv("waiting", i) =
                  (IF /\ is_batch(run)
                      /\ i < Len(run.devices)
                      /\ i <= Len(run.results)
                      /\ run.results[i] = "ok"
                   THEN 1 ELSE 0)
            /\ (EvPos("waiting", i) > 0 /\ UploadStartPos(i + 1) > 0)
                  => /\ EvPos("upload_ok", i) < EvPos("waiting", i)
                     /\ EvPos("waiting", i) < UploadStartPos(i + 1))
    /\ [](run.pc = "pause"
            => /\ run.log[Len(run.log)] = Ev("waiting", run.idx, 0)
               /\ Len(run.uploaded) = run.idx)
    /\ [][(/\ Len(run'.uploaded) > Len(run.uploaded)
           /\ EvPos("waiting", Len(run.uploaded)) > 0)
              => run.pc = "pause"]_vars

C22_Witness ==
    /\ run.pc = "done"
    /\ Len(run.devices) = 3
    /\ run.results = <<"ok", "failed", "ok">>
    /\ CountEv("waiting", 1) = 1
    /\ CountEv("waiting", 2) = 0
    /\ CountEv("waiting", 3) = 0

\* C24: the 'Firmware verified' and completion events appear only in a
\* single-device run whose upload succeeded, only after the reboot wait, and
\* are emitted by the step that ends the wait; a single-device run invokes
\* upload at most once, and one with a valid file whose upload returns success
\* has invoked it exactly once and ends completed, with no error shown.
C24_VerifiedOnlyAfterSingleSuccess ==
    /\ [](\A tag \in {"verified", "completed"} :
            HasEv(tag)
               => /\ Len(run.devices) = 1
                  /\ run.results = <<"ok">>
                  /\ run.pc \in {"refresh", "done"}
                  /\ EvPos("reboot_wait", 0) > 0
                  /\ EvPos("reboot_wait", 0) < EvPos(tag, 0))
    /\ [][(HasEv("verified")' /\ ~HasEv("verified")) => run.pc = "reboot"]_vars
    /\ [](Len(run.devices) = 1 => Len(run.uploaded) <= 1)
    /\ []((/\ run.pc = "done"
           /\ Len(run.devices) = 1
           /\ ValidationPasses
           /\ run.results = <<"ok">>)
             => /\ run.uploaded = <<1>>
                /\ HasEv("verified")
                /\ HasEv("completed")
                /\ run.error_dialog = "none"
                /\ ~has_error)

C24_Witness ==
    /\ run.pc = "done"
    /\ run.devices = <<Dev("COM3", "Online", "Pico", "Sensor")>>
    /\ run.firmware_path = FwUf2
    /\ run.uploaded = <<1>>
    /\ run.results = <<"ok">>
    /\ HasEv("verified")
    /\ HasEv("completed")

(***************************************************************************)
(* Properties of the request deploy_firmware hands to on_deploy            *)
(***************************************************************************)
\* C25: all targets of a run have the kind of the first target, so every device
\* for which upload is invoked has a kind the firmware file is valid for.
C25_BatchTargetsSameKind ==
    /\ \A k \in 1..Len(run.devices) : run.devices[k].kind = run.devices[1].kind
    /\ \A k \in 1..Len(run.uploaded) :
          validate_firmware_file(run.devices[run.uploaded[k]].kind,
                                 run.firmware_path).valid

\* C26: every run deploy_firmware starts has at least one target device.
C26_TargetsNeverEmpty == run.pc # "idle" => run.devices # <<>>

(***************************************************************************)
(* Properties of a run: the connection-closing refresh                     *)
(***************************************************************************)
\* C23: a run that passes validation invokes its connection-closing refresh
\* with connections disallowed, whatever the "Connect all" checkbox says, and
\* the first upload is invoked only when that refresh has returned and the
\* settle delay after it is over.
C23_QuiesceWithoutConnectBeforeUpload ==
    /\ [](HasEv("closing") <=> run.allow_connect # NoneOpt)
    /\ []((run.pc \notin {"idle", "start"} /\ ValidationPasses)
             => run.allow_connect = Some(FALSE))
    /\ [](run.uploaded # <<>>
             => /\ HasEv("closing")
                /\ run.pc \notin {"quiesce", "settle"}
                /\ EvPos("closing", 0) < UploadStartPos(1))
    /\ [][(run.pc # "settle" /\ run'.pc = "settle") => run.pc = "quiesce"]_vars
    /\ [][(run.uploaded = <<>> /\ run'.uploaded # <<>>) => run.pc = "settle"]_vars

C23_Witness ==
    /\ connect_all_on_refresh
    /\ run.allow_connect = Some(FALSE)
    /\ run.pc = "upload"
    /\ run.uploaded = <<1>>

(***************************************************************************)
(* Properties of the CLI wrapper (CliSpec)                                 *)
(***************************************************************************)
\* the process exited with code 0 and printed a JSON array
ProcPrintedArray(proc) ==
    /\ proc.launched
    /\ proc.returncode = 0
    /\ json_loads(proc.stdout).exc = "none"
    /\ IsList(json_loads(proc.stdout).value)

\* C27: list_devices never raises: it returns the parsed list when the process
\* exits with code 0 and prints a JSON array, and an empty list on every other
\* outcome of the process, a failure to launch the executable included.
C27_ListDevicesNeverRaises ==
    cli.op = "list_devices"
        => /\ ~cli.result.raised
           /\ cli.result.value = (IF ProcPrintedArray(cli.proc)
                                  THEN json_loads(cli.proc.stdout).value
                                  ELSE EmptyList)

\* C28: when the process exits, upload_firmware returns (False, error stream)
\* for a non-zero exit code and (True, output stream) for exit code 0: the flag
\* is true exactly when the exit code is 0.
C28_UploadResultFollowsExitCode ==
    (cli.op = "upload_firmware" /\ cli.proc.launched)
        => /\ ~cli.result.raised
           /\ cli.result.value[1] <=> (cli.proc.returncode = 0)
           /\ cli.result.value = (IF cli.proc.returncode = 0
                                  THEN <<TRUE, cli.proc.stdout>>
                                  ELSE <<FALSE, cli.proc.stderr>>)

C28_Witness ==
    /\ cli.op = "upload_firmware"
    /\ cli.proc.launched
    /\ cli.proc.returncode = 1
    /\ cli.proc.stdout = <<"x">>
    /\ cli.result.value = <<FALSE, <<"no device on port">>>>

(***************************************************************************)
(* Properties of the inspection cache (InspectSpec)                        *)
(***************************************************************************)
\* C29: once an inspection of a path has returned metadata, every later
\* inspection of that path returns the same metadata and does not call the
\* external tool.
C29_InspectionCachedPerPath ==
    \A i \in 1..Len(inspections) : \A j \in 1..Len(inspections) :
        (/\ i < j
         /\ inspections[i].path = inspections[j].path
         /\ Truthy(inspections[i].result))
            => /\ inspections[j].result = inspections[i].result
               /\ ~inspections[j].cli_called

C29_Witness ==
    /\ Len(inspections) = 3
    /\ inspections[1] = [path |-> "a.uf2", result |-> "None", cli_called |-> TRUE]
    /\ inspections[2] = [path |-> "a.uf2", result |-> "meta-1.0.0", cli_called |-> TRUE]
    /\ inspections[3] = [path |-> "a.uf2", result |-> "meta-1.0.0", cli_called |-> FALSE]

(***************************************************************************)
(* Properties of the Device model (DeviceSpec)                             *)
(***************************************************************************)
\* C30: Device(...) succeeds exactly when the port is present or the state is
\* Bootloader or DriverError; with no port and any other state it fails with a
\* validation error, so every constructed Device has a port or is in one of
\* these two states.
C30_PortRequiredUnlessBootloaderOrDriverError ==
    constructed.outcome # "pending"
        => LET f == constructed.fields
               mayLackPort == f.state \in {"Bootloader", "DriverError"}
           IN /\ constructed.outcome = "ok" <=> (f.port_name # None \/ mayLackPort)
              /\ (f.port_name = None /\ ~mayLackPort)
                    => constructed.outcome = "ValidationError"

C30_Witness ==
    /\ constructed.outcome = "ValidationError"
    /\ constructed.fields.state = "DeviceError"
    /\ constructed.fields.port_name = None

(***************************************************************************)
(* Further properties of the eligibility gate (GateSpec)                   *)
(***************************************************************************)
NoSpecialState(devs) ==
    \A k \in 1..Len(devs) :
        devs[k].state \notin {"Bootloader", "DriverError", "DeviceError"}

\* C31: a non-empty inventory without a device whose state is exactly
\* Bootloader, DriverError or DeviceError is allowed, whatever the selection and
\* the batch flag.
C31_PlainInventoryAllowed ==
    (Evaluated /\ devices # <<>> /\ NoSpecialState(devices)) => decision = Allowed

C31_Witness ==
    /\ Evaluated
    /\ Len(devices) = 2
    /\ devices[1].state = "bootloader"
    /\ devices[2].state = "Online"
    /\ selected_device = NoneOpt
    /\ batch_update
    /\ decision = Allowed

\* C32: an empty inventory is blocked with the no-devices reason, whatever the
\* selection and the batch flag.
C32_EmptyInventoryBlocked ==
    (Evaluated /\ devices = <<>>) => decision = Blocked(NoDevicesReason)

C32_Witness ==
    /\ Evaluated
    /\ devices = <<>>
    /\ selected_device # NoneOpt
    /\ batch_update
    /\ decision = Blocked(NoDevicesReason)

\* C33: the evaluation changes nothing but its own result, the result is the
\* function of the inventory, the selection and the batch flag, and the reason
\* is absent exactly when the decision is allowed.
C33_EvaluationIsPure ==
    /\ [][decision' # decision
            => /\ UNCHANGED <<devices, rows, selected_device, firmware_file_path,
                              deploy_button, force_upload, batch_update,
                              connect_all_on_refresh, notification, run>>
               /\ decision' = get_deploy_eligibility(devices, selected_device,
                                                     batch_update)]_vars
    /\ [](Evaluated
            => /\ decision = get_deploy_eligibility(devices, selected_device,
                                                    batch_update)
               /\ decision.ok <=> decision.reason = None
               /\ ~decision.ok <=> decision.reason \in BlockedReasons)

C33_Witness ==
    /\ Evaluated
    /\ ~decision.ok
    /\ decision.reason = BatchBootloaderReason
    /\ ~deploy_button
    /\ batch_update

(***************************************************************************)
(* Further properties of the deploy control and of the start of a run      *)
(***************************************************************************)
\* C34: from the click that starts a run until on_deploy has returned the
\* deploy button stays disabled, whatever other callbacks run in between.
C34_ButtonDisabledDuringRun == RunInFlight => ~deploy_button

\* C35: while an upload of a run is in flight no listing started by a user's
\* refresh is in flight.
C35_NoRefreshDuringUpload ==
    ~(run.pc = "upload" /\ refresh.pc = "listing" /\ refresh.owner = "user")

\* a step of deploy_firmware that passes the early returns and calls on_deploy
RunStarts == run.pc \in {"idle", "done"} /\ run' # run

InCache(d) == \E k \in 1..Len(devices) : devices[k] = d

\* C36: when a run is started, every target (the one selected device of a
\* single run, each device of a batch run) is a member of the cached inventory.
C36_TargetsAreCached ==
    [][RunStarts => \A k \in 1..Len(run'.devices) : InCache(run'.devices[k])]_vars

\* C37: whenever the deploy button is enabled, a device is selected and a
\* firmware file has been chosen.
C37_EnabledButtonHasSelectionAndFile ==
    deploy_button => (selected_device # NoneOpt /\ firmware_file_path # NoneOpt)

\* the log entries announcing an upload
UploadAnnouncements == {k \in 1..Len(run.log) : run.log[k].tag \in {"upload", "forced_upload"}}

\* C39: every upload of a run is given the value of the force checkbox at the
\* click, except that a selected device of kind Pico (spelled Pico or PICO)
\* makes it true for every upload of the run, batch targets included.
C39_ForceFlagOfRun ==
    /\ [][RunStarts
            => run'.force = (IF selected_device[1].kind \in {"Pico", "PICO"} THEN TRUE
                             ELSE force_upload)]_vars
    /\ [][RunInFlight => run'.force = run.force]_vars
    /\ [](\A k \in UploadAnnouncements :
             run.log[k].tag = "forced_upload" <=> run.force)

C39_Witness ==
    /\ run.pc = "upload"
    /\ Len(run.devices) = 2
    /\ run.idx = 2
    /\ run.devices[2].kind = "ATxmega"
    /\ selected_device # NoneOpt
    /\ selected_device[1].kind = "Pico"
    /\ run.force
    /\ \A k \in UploadAnnouncements : run.log[k].tag = "forced_upload"

(***************************************************************************)
(* Properties of a table refresh: it always ends                           *)
(***************************************************************************)
\* C38: every refresh started through refresh_devices resets is_refreshing,
\* enables the refresh button again and closes the refresh dialog, also when
\* the device manager's refresh raises; no refresh stays in progress forever.
C38_RefreshAlwaysEnds ==
    /\ [](is_refreshing <=> refresh.pc # "idle")
    /\ [](~is_refreshing => (refresh_button /\ ~refresh_dialog))
    /\ is_refreshing ~> (~is_refreshing /\ refresh_button /\ ~refresh_dialog)

C38_Witness ==
    /\ notification = RefreshErrorNotice
    /\ refresh.pc = "idle"
    /\ ~is_refreshing
    /\ refresh_button
    /\ ~refresh_dialog

(***************************************************************************)
(* Properties of a device: its health category                             *)
(***************************************************************************)
\* C40: every device the gate counts as an error device (state DriverError or
\* DeviceError) has the health category Error.
C40_ErrorDevicesShownAsError ==
    (constructed.outcome = "ok" /\ IsError(constructed.fields))
        => constructed.health_status = "Error"

====
